---- MODULE Spec2Model ----
(***************************************************************************)
(* Model of api_send_email_notification.py: module-level configuration,    *)
(* the aggregation query of get_task_status_summary, the HTML rendering of *)
(* build_task_status_email_template, the token exchange and the Graph      *)
(* sendMail call, and the orchestration in send_task_status_report.        *)
(***************************************************************************)
EXTENDS Integers, Sequences, FiniteSets, TLC

VARIABLES
    env,            \* the process environment: a function from the names that are set to their values
    loaded,         \* module import: "loading", "ok" or "config_error"
    config,         \* the module globals set by a successful import
    pc,             \* position of the current run of send_task_status_report
    conn,           \* the psycopg2 connection of the run: "none", "open" or "closed"
    store,          \* the task table, each task with the score of its scored job (the aggregation on
                    \* its own); a whole run takes the table content as an input of its query
    task_summary,   \* the rows returned by get_task_status_summary
    html,           \* the document built by build_task_status_email_template
    token_res,      \* the answer of the token endpoint in this run
    access_token,   \* the token returned by get_access_token in this run
    calls,          \* external calls issued by the current run, by kind
    sent,           \* the sendMail request issued by the current run
    sendOk,         \* the sendMail request of the current run was answered with success
    result,         \* the object returned by send_task_status_report
    error,          \* the exception that ended the import or the run ("" when none)
    eligibleTasks,  \* number of tasks in the store read by this run that are in window with score >= 75
    everCalled      \* the process has issued a store connection, a token request or a send request

vars == <<env, loaded, config, pc, conn, store, task_summary, html, token_res, access_token,
          calls, sent, sendOk, result, error, eligibleTasks, everCalled>>

-----------------------------------------------------------------------------
(* Bounds of the model *)

MaxTasks == 2       \* tasks in the store
MaxRows == 2        \* rows handed to the renderer on its own
MaxTotal == 1       \* sum of the six counts of a row handed to the renderer on its own

-----------------------------------------------------------------------------
(* Values *)

\* Python None and SQL NULL
None == "<None>"

\* Python truthiness of an optional string
Falsy(v) == v = None \/ v = ""

\* the empty record: no result / no request yet
NoRecord == [x \in {} |-> TRUE]

\* character strings are sequences of one-character strings
UpperCase == <<"A","B","C","D","E","F","G","H","I","J","K","L","M",
               "N","O","P","Q","R","S","T","U","V","W","X","Y","Z">>
LowerCase == <<"a","b","c","d","e","f","g","h","i","j","k","l","m",
               "n","o","p","q","r","s","t","u","v","w","x","y","z">>

LowerChar(c) ==
    IF \E i \in 1..Len(UpperCase) : UpperCase[i] = c
    THEN LowerCase[CHOOSE i \in 1..Len(UpperCase) : UpperCase[i] = c]
    ELSE c

\* SQL LOWER(text)
Lower(s) == [i \in 1..Len(s) |-> LowerChar(s[i])]

\* the six status literals of the query
StCompleted == <<"c","o","m","p","l","e","t","e","d">>
StPending == <<"p","e","n","d","i","n","g">>
StInProgress == <<"i","n","_","p","r","o","g","r","e","s","s">>
StNotRelevant == <<"n","o","t","_","r","e","l","e","v","a","n","t">>
StJobNotFound == <<"j","o","b","_","n","o","t","_","f","o","u","n","d">>
StAlreadyApplied == <<"a","l","r","e","a","d","y","_","a","p","p","l","i","e","d">>

\* the count columns of a result row, with the literal each one filters on
CountColumns == <<"completed_75_plus", "pending_75_plus", "in_progress_75_plus",
                  "not_relevant_75_plus", "job_not_found_75_plus", "already_applied_75_plus">>
ColumnLiteral == <<StCompleted, StPending, StInProgress, StNotRelevant, StJobNotFound,
                   StAlreadyApplied>>

-----------------------------------------------------------------------------
(* The store *)

\* score threshold of the FILTER clauses
ScoreThreshold == 75

\* the WHERE window, in hours from 2025-12-23 00:00:00+00
WindowStart == 0
WindowEnd == 24

\* karmafy_lead: id -> apwId, email
LeadTable == <<[apwId |-> "APW-1", email |-> "lead1@example.com"],
               [apwId |-> "APW-2", email |-> "lead2@example.com"]>>
LeadIds == DOMAIN LeadTable

\* karmafy_opsPerson: user_id -> name, email; names in collation order
OpsTable == <<[name |-> "Jane Doe", email |-> "jane@applywizz.com"],
              [name |-> "Raj Rao", email |-> "raj@applywizz.com"]>>
OpsIds == DOMAIN OpsTable

\* t."ops_personId" IS NULL
NullRef == 0

\* status values stored in karmafy_task.status
StatusList == <<StCompleted,
                <<"C","o","m","p","l","e","t","e","d">>,
                <<"C","O","M","P","L","E","T","E","D">>,
                StPending, StInProgress, StNotRelevant, StJobNotFound, StAlreadyApplied,
                <<"a","r","c","h","i","v","e","d">>>>
StatusValues == {StatusList[i] : i \in DOMAIN StatusList}

\* the statuses of the stores read by whole runs: one recognised in mixed case, one not recognised
RunStatusValues == {StatusList[2], StatusList[9]}

ScoreValues == {ScoreThreshold - 1, ScoreThreshold}
CreatedAtValues == {WindowStart - 1, WindowStart, WindowEnd}

\* a karmafy_task row with the score of its scored job
TaskValues(statuses) ==
    [leadId : LeadIds, ops_personId : OpsIds \cup {NullRef}, score : ScoreValues,
     status : statuses, createdAt : CreatedAtValues]

StatusRank(s) == CHOOSE i \in DOMAIN StatusList : StatusList[i] = s

TaskKey(t) ==
    ((((t.leadId * 10 + t.ops_personId) * 100 + t.score) * 100
        + (t.createdAt - WindowStart + 1)) * 10) + StatusRank(t.status)

\* table contents up to the order of the rows in the heap
Canonical(s) == \A i \in 1..(Len(s) - 1) : TaskKey(s[i]) <= TaskKey(s[i + 1])

-----------------------------------------------------------------------------
(* get_task_status_summary: the aggregation query *)

\* variant: the window closed at its end
InWindowClosed(t) == t.createdAt >= WindowStart /\ t.createdAt <= WindowEnd

InWindow(t) == t.createdAt >= WindowStart /\ t.createdAt < WindowEnd

ScoreOk(t) == t.score >= ScoreThreshold

\* LEFT JOIN karmafy_opsPerson op ON op.user_id = t.ops_personId
OpName(t) == IF t.ops_personId \in OpsIds THEN OpsTable[t.ops_personId].name ELSE None
OpEmail(t) == IF t.ops_personId \in OpsIds THEN OpsTable[t.ops_personId].email ELSE None

\* the GROUP BY key of a joined row
GroupKey(t) == <<LeadTable[t.leadId].apwId, LeadTable[t.leadId].email, OpName(t), OpEmail(t)>>

\* rows that pass the joins and the WHERE clause
Selected(s) == {i \in 1..Len(s) : s[i].leadId \in LeadIds /\ InWindow(s[i])}

Groups(s) == {GroupKey(s[i]) : i \in Selected(s)}

\* variant: the FILTER clauses without the score condition
CountFilterAnyScore(s, g, literal) ==
    Cardinality({i \in Selected(s) : GroupKey(s[i]) = g /\ Lower(s[i].status) = literal})

\* COUNT(*) FILTER (WHERE sj.score >= 75 AND LOWER(t.status) = literal) within one group
CountFilter(s, g, literal) ==
    Cardinality({i \in Selected(s) :
        GroupKey(s[i]) = g /\ ScoreOk(s[i]) /\ Lower(s[i].status) = literal})

GroupRow(s, g) ==
    [apw_id |-> g[1], lead_email |-> g[2], ca_name |-> g[3], ca_email |-> g[4],
     completed_75_plus |-> CountFilter(s, g, ColumnLiteral[1]),
     pending_75_plus |-> CountFilter(s, g, ColumnLiteral[2]),
     in_progress_75_plus |-> CountFilter(s, g, ColumnLiteral[3]),
     not_relevant_75_plus |-> CountFilter(s, g, ColumnLiteral[4]),
     job_not_found_75_plus |-> CountFilter(s, g, ColumnLiteral[5]),
     already_applied_75_plus |-> CountFilter(s, g, ColumnLiteral[6])]

\* ORDER BY op.name: ascending, NULLs last
NameRank(n) ==
    IF \E i \in OpsIds : OpsTable[i].name = n
    THEN CHOOSE i \in OpsIds : OpsTable[i].name = n
    ELSE Len(OpsTable) + 1

\* the orders in which the query may return its rows: rows of equal op.name in any order
QueryResults(s) ==
    LET rows == {GroupRow(s, g) : g \in Groups(s)}
        n == Cardinality(rows)
    IN  {q \in [1..n -> rows] :
            /\ \A i, j \in 1..n : i # j => q[i] # q[j]
            /\ \A i \in 1..(n - 1) : NameRank(q[i].ca_name) <= NameRank(q[i + 1].ca_name)}

-----------------------------------------------------------------------------
(* build_task_status_email_template *)

Digits == <<"0","1","2","3","4","5","6","7","8","9">>

\* str(int) of a non-negative integer, as the f-string formats it
RECURSIVE Str(_)
Str(n) == IF n < 10 THEN <<Digits[n + 1]>> ELSE Str(n \div 10) \o <<Digits[(n % 10) + 1]>>

\* task.get(key, 'N/A') or 'N/A'
OrNA(v) == IF Falsy(v) THEN "N/A" ELSE v

\* str() of an optional string inside an f-string
FmtStr(v) == IF v = None THEN "None" ELSE v

\* variant: a total that leaves out the last column
TotalTasksFive(task) ==
    task.completed_75_plus + task.pending_75_plus + task.in_progress_75_plus
        + task.not_relevant_75_plus + task.job_not_found_75_plus

\* total_tasks of one row
TotalTasks(task) ==
    task.completed_75_plus + task.pending_75_plus + task.in_progress_75_plus
        + task.not_relevant_75_plus + task.job_not_found_75_plus + task.already_applied_75_plus

\* one <tr> of the table: its twelve cells
TableRow(idx, task) ==
    [idx |-> Str(idx),
     apw_id |-> OrNA(task.apw_id),
     lead_email |-> FmtStr(task.lead_email),
     ca_name |-> OrNA(task.ca_name),
     ca_email |-> OrNA(task.ca_email),
     completed |-> Str(task.completed_75_plus),
     pending |-> Str(task.pending_75_plus),
     in_progress |-> Str(task.in_progress_75_plus),
     not_relevant |-> Str(task.not_relevant_75_plus),
     job_not_found |-> Str(task.job_not_found_75_plus),
     already_applied |-> Str(task.already_applied_75_plus),
     total |-> Str(TotalTasks(task))]

\* the loop over enumerate(tasks_data, 1): task_rows after the first n rows
RECURSIVE TaskRows(_, _)
TaskRows(tasks_data, n) ==
    IF n = 0 THEN <<>>
    ELSE Append(TaskRows(tasks_data, n - 1), TableRow(n, tasks_data[n]))

\* the document: the parts that depend on the arguments (dates left out)
BuildTemplate(app_name, tasks_data) ==
    [app_name |-> app_name,
     combinations |-> Str(Len(tasks_data)),
     task_rows |-> TaskRows(tasks_data, Len(tasks_data)),
     support_url |-> "https://dashboard.apply-wizz.com/"]

-----------------------------------------------------------------------------
(* Module-level configuration *)

APP_NAME == "Task Management"
TEST_EMAIL_RECIPIENT == "bhanutejathouti@gmail.com"
DefaultSender == "support@applywizz.com"

RequiredNames == {"AZURE_TENANT_ID", "AZURE_CLIENT_ID", "AZURE_CLIENT_SECRET", "DATABASE_URL"}
OptionalNames == {"SENDER_EMAIL", "CC_EMAIL_RECIPIENTS"}

\* the value a name has when it is set to something non-empty
EnvSetValue ==
    [n \in RequiredNames \cup OptionalNames |->
        CASE n = "AZURE_TENANT_ID" -> "tenant-1"
          [] n = "AZURE_CLIENT_ID" -> "client-1"
          [] n = "AZURE_CLIENT_SECRET" -> "secret-1"
          [] n = "DATABASE_URL" -> "postgresql://db/karmafy"
          [] n = "SENDER_EMAIL" -> "reports@applywizz.com"
          [] n = "CC_EMAIL_RECIPIENTS" -> <<"a","@","x",","," ",","," ","b","@","x"," ">>]

\* environments: each required name unset, empty or set; each optional name unset or set
Environments ==
    {[n \in S |-> IF n \in E THEN "" ELSE EnvSetValue[n]] :
        <<S, E>> \in {<<S1, E1>> \in (SUBSET (RequiredNames \cup OptionalNames)) \X (SUBSET RequiredNames) :
                        E1 \subseteq S1}}

\* os.getenv(name, default)
Getenv(e, name, default) == IF name \in DOMAIN e THEN e[name] ELSE default

\* str.split(",")
RECURSIVE SplitComma(_)
SplitComma(s) ==
    IF \E i \in 1..Len(s) : s[i] = ","
    THEN LET k == CHOOSE i \in 1..Len(s) : s[i] = "," /\ \A j \in 1..(i - 1) : s[j] # ","
         IN  <<SubSeq(s, 1, k - 1)>> \o SplitComma(SubSeq(s, k + 1, Len(s)))
    ELSE <<s>>

\* str.strip()
RECURSIVE Strip(_)
Strip(s) ==
    IF s = <<>> THEN s
    ELSE IF Head(s) = " " THEN Strip(Tail(s))
    ELSE IF s[Len(s)] = " " THEN Strip(SubSeq(s, 1, Len(s) - 1))
    ELSE s

\* [email.strip() for email in CC_RECIPIENTS_STR.split(",") if email.strip()]
ParseCc(cc_str) ==
    LET parts == SplitComma(cc_str)
        stripped == [i \in 1..Len(parts) |-> Strip(parts[i])]
    IN  SelectSeq(stripped, LAMBDA e : e # <<>>)

\* "not all([TENANT_ID, CLIENT_ID, CLIENT_SECRET])" and "not DATABASE_URL"
AzureMissing(e) ==
    \/ Falsy(Getenv(e, "AZURE_TENANT_ID", None))
    \/ Falsy(Getenv(e, "AZURE_CLIENT_ID", None))
    \/ Falsy(Getenv(e, "AZURE_CLIENT_SECRET", None))

\* variant: DATABASE_URL checked against None only
DatabaseUrlNone(e) == Getenv(e, "DATABASE_URL", None) = None

DatabaseUrlMissing(e) == Falsy(Getenv(e, "DATABASE_URL", None))

ModuleGlobals(e) ==
    [TENANT_ID |-> Getenv(e, "AZURE_TENANT_ID", None),
     CLIENT_ID |-> Getenv(e, "AZURE_CLIENT_ID", None),
     CLIENT_SECRET |-> Getenv(e, "AZURE_CLIENT_SECRET", None),
     SENDER_EMAIL |-> Getenv(e, "SENDER_EMAIL", DefaultSender),
     DATABASE_URL |-> Getenv(e, "DATABASE_URL", None),
     CC_EMAIL_RECIPIENTS |-> ParseCc(Getenv(e, "CC_EMAIL_RECIPIENTS", <<>>))]

-----------------------------------------------------------------------------
(* The external services *)

Tokens == {"tok-A", "tok-B"}

\* answers of the token endpoint: requests.post raises, or a response with res.ok
\* and the access_token field of its JSON body (None when the field is absent)
TokenAnswers ==
    [raised : {FALSE}, ok : BOOLEAN, access_token : Tokens \cup {None, ""}]
        \cup {[raised |-> TRUE, ok |-> FALSE, access_token |-> None]}

\* answers of the sendMail endpoint
SendAnswers == {"ok", "not_ok", "raised"}

\* contents of the store a run may read
RunStores ==
    UNION {{s \in [1..n -> TaskValues(RunStatusValues)] : Canonical(s)} : n \in 0..MaxTasks}

\* an eligible task: created inside the window, score at or above the threshold
Eligible(t) ==
    /\ WindowStart <= t.createdAt /\ t.createdAt < WindowEnd
    /\ t.score >= ScoreThreshold

EligibleCount(s) == Cardinality({i \in 1..Len(s) : Eligible(s[i])})

NoCalls == [connect |-> 0, query |-> 0, token |-> 0, send |-> 0]

-----------------------------------------------------------------------------
(* Import of the module *)

Init ==
    /\ env \in Environments
    /\ loaded = "loading"
    /\ config = NoRecord
    /\ pc = "idle"
    /\ conn = "none"
    /\ store = <<>>
    /\ task_summary = <<>>
    /\ html = NoRecord
    /\ token_res = NoRecord
    /\ access_token = ""
    /\ calls = NoCalls
    /\ sent = NoRecord
    /\ sendOk = FALSE
    /\ result = NoRecord
    /\ error = ""
    /\ eligibleTasks = -1
    /\ everCalled = FALSE

\* lines 22-53: read the environment, raise ValueError when a required value is missing
LoadModule ==
    /\ loaded = "loading"
    /\ IF AzureMissing(env)
       THEN /\ loaded' = "config_error"
            /\ error' = "ValueError: Missing required Azure AD credentials"
            /\ config' = config
       ELSE IF DatabaseUrlMissing(env)
       THEN /\ loaded' = "config_error"
            /\ error' = "ValueError: Missing required DATABASE_URL environment variable"
            /\ config' = config
       ELSE /\ loaded' = "ok"
            /\ error' = ""
            /\ config' = ModuleGlobals(env)
    /\ UNCHANGED <<env, pc, conn, store, task_summary, html, token_res, access_token, calls, sent,
                   sendOk, result, eligibleTasks, everCalled>>

-----------------------------------------------------------------------------
(* One run of send_task_status_report *)

\* the endpoint is called (or the script's main block runs it)
StartRun ==
    /\ loaded = "ok"
    /\ pc \in {"idle", "done", "failed"}
    /\ pc' = "connect"
    /\ conn' = "none"
    /\ task_summary' = <<>>
    /\ html' = NoRecord
    /\ token_res' = NoRecord
    /\ access_token' = ""
    /\ calls' = NoCalls
    /\ sent' = NoRecord
    /\ sendOk' = FALSE
    /\ result' = NoRecord
    /\ error' = ""
    /\ eligibleTasks' = -1
    /\ UNCHANGED <<env, loaded, config, store, everCalled>>

\* get_db_connection
GetDbConnection ==
    /\ pc = "connect"
    /\ calls' = [calls EXCEPT !.connect = @ + 1]
    /\ everCalled' = TRUE
    /\ \E connected \in BOOLEAN :
        IF connected
        THEN /\ conn' = "open"
             /\ pc' = "query"
             /\ error' = error
        ELSE /\ conn' = "none"
             /\ pc' = "failed"
             /\ error' = "HTTPException: Database connection failed"
    /\ UNCHANGED <<env, loaded, config, store, task_summary, html, token_res, access_token, sent,
                   sendOk, result, eligibleTasks>>

\* variant: the connection closed on the success path only
CloseOnSuccessOnly(failed) == IF failed THEN "open" ELSE "closed"

\* what "finally: conn.close()" leaves of the connection, on either exit of the try block
CloseConnection(failed) == "closed"

\* the try block of get_task_status_summary: execute, fetchall, and the finally clause
ExecuteQuery ==
    /\ pc = "query"
    /\ conn = "open"
    /\ calls' = [calls EXCEPT !.query = @ + 1]
    /\ \/ \E s \in RunStores : \E rows \in QueryResults(s) :
            /\ task_summary' = rows
            /\ eligibleTasks' = EligibleCount(s)
            /\ conn' = CloseConnection(FALSE)
            /\ pc' = "check"
            /\ error' = error
       \/ /\ task_summary' = task_summary
          /\ eligibleTasks' = eligibleTasks
          /\ conn' = CloseConnection(TRUE)
          /\ pc' = "failed"
          /\ error' = "HTTPException: Database query failed"
    /\ UNCHANGED <<env, loaded, config, store, html, token_res, access_token, sent, sendOk, result,
                   everCalled>>

\* the object returned on the "if not task_summary" branch
NoTasksResult ==
    [success |-> TRUE,
     message |-> <<"No tasks found for today with score >= 75">>,
     task_count |-> 0,
     email_sent |-> FALSE]

\* the object returned after the mail was sent
SentResult(rows) ==
    [success |-> TRUE,
     message |-> <<"Daily task status report sent for ", Str(Len(rows)), " lead-CA combination(s)">>,
     task_combinations_count |-> Len(rows),
     tasks_data |-> rows,
     email_sent |-> TRUE,
     email_sent_to |-> TEST_EMAIL_RECIPIENT]

\* "if not task_summary": the branch taken in send_task_status_report
NoTasks(rows) == rows = <<>>

\* lines 518-524
ReturnNoTasks ==
    /\ pc = "check"
    /\ NoTasks(task_summary)
    /\ result' = NoTasksResult
    /\ pc' = "done"
    /\ UNCHANGED <<env, loaded, config, conn, store, task_summary, html, token_res, access_token,
                   calls, sent, sendOk, error, eligibleTasks, everCalled>>

\* lines 526-532
BuildEmail ==
    /\ pc = "check"
    /\ ~NoTasks(task_summary)
    /\ html' = BuildTemplate(APP_NAME, task_summary)
    /\ pc' = "token"
    /\ UNCHANGED <<env, loaded, config, conn, store, task_summary, token_res, access_token, calls,
                   sent, sendOk, result, error, eligibleTasks, everCalled>>

\* variant: a token checked against None only
TokenIsNone(tok) == tok = None

\* "if not access_token" of get_access_token
TokenMissing(tok) == Falsy(tok)

\* variant: the token exchange tried a second time when its first answer is unusable
GetAccessTokenRetrying ==
    /\ pc = "token"
    /\ calls' = [calls EXCEPT !.token = @ + 1]
    /\ everCalled' = TRUE
    /\ \E res \in TokenAnswers :
        /\ token_res' = res
        /\ IF res.raised \/ ~res.ok \/ Falsy(res.access_token)
           THEN /\ pc' = IF calls.token = 0 THEN "token" ELSE "failed"
                /\ error' = IF calls.token = 0 THEN error
                            ELSE "HTTPException: Failed to get access token from Azure AD"
                /\ access_token' = access_token
           ELSE /\ pc' = "send"
                /\ error' = error
                /\ access_token' = res.access_token
    /\ UNCHANGED <<env, loaded, config, conn, store, task_summary, html, sent, sendOk,
                   result, eligibleTasks>>

\* get_access_token, called first thing by send_mail_via_graph
GetAccessToken ==
    /\ pc = "token"
    /\ calls' = [calls EXCEPT !.token = @ + 1]
    /\ everCalled' = TRUE
    /\ \E res \in TokenAnswers :
        /\ token_res' = res
        /\ IF res.raised
           THEN /\ pc' = "failed"
                /\ error' = "requests.RequestException"
                /\ access_token' = access_token
           ELSE IF ~res.ok
           THEN /\ pc' = "failed"
                /\ error' = "HTTPException: Failed to get access token from Azure AD"
                /\ access_token' = access_token
           ELSE IF TokenMissing(res.access_token)
           THEN /\ pc' = "failed"
                /\ error' = "HTTPException: No access token received from Azure AD"
                /\ access_token' = access_token
           ELSE /\ pc' = "send"
                /\ error' = error
                /\ access_token' = res.access_token
    /\ UNCHANGED <<env, loaded, config, conn, store, task_summary, html, sent, sendOk,
                   result, eligibleTasks>>

\* the bearer token put in the Authorization header
BearerOf(tok) == tok

\* the request posted to /users/{SENDER_EMAIL}/sendMail
SendRequest(to, subject, body, cc, tok) ==
    LET base == [sender |-> config.SENDER_EMAIL,
                 subject |-> subject,
                 contentType |-> "HTML",
                 content |-> body,
                 toRecipients |-> <<to>>,
                 saveToSentItems |-> TRUE,
                 authorization |-> <<"Bearer", BearerOf(tok)>>]
    IN  IF Len(cc) > 0
        THEN [k \in DOMAIN base \cup {"ccRecipients"} |->
                 IF k = "ccRecipients" THEN cc ELSE base[k]]
        ELSE base

\* variant: the status of the sendMail response not checked
SendRaised(answer) == answer = "raised"

\* "if not res.ok" of send_mail_via_graph, or requests.post raising
SendFailed(answer) == answer # "ok"

\* the rest of send_mail_via_graph and, when the mail API answers with success,
\* the return of send_task_status_report (lines 542-564)
SendMail ==
    /\ pc = "send"
    /\ calls' = [calls EXCEPT !.send = @ + 1]
    /\ everCalled' = TRUE
    /\ sent' = SendRequest(TEST_EMAIL_RECIPIENT,
                           <<APP_NAME, " - Daily Task Status Report (Score >= 75)">>,
                           html, config.CC_EMAIL_RECIPIENTS, access_token)
    /\ \E answer \in SendAnswers :
        /\ sendOk' = (answer = "ok")
        /\ IF ~SendFailed(answer)
           THEN /\ result' = SentResult(task_summary)
                /\ pc' = "done"
                /\ error' = error
           ELSE /\ result' = result
                /\ pc' = "failed"
                /\ error' = IF answer = "raised" THEN "requests.RequestException"
                            ELSE "HTTPException: Failed to send email via Microsoft Graph"
    /\ UNCHANGED <<env, loaded, config, conn, store, task_summary, html, token_res, access_token,
                   eligibleTasks>>

Next ==
    \/ LoadModule
    \/ StartRun
    \/ GetDbConnection
    \/ ExecuteQuery
    \/ ReturnNoTasks
    \/ BuildEmail
    \/ GetAccessToken
    \/ SendMail

Spec == Init /\ [][Next]_vars

-----------------------------------------------------------------------------
(* The aggregation on its own: get_task_status_summary over every store content *)

\* every store content of up to MaxTasks tasks
InitAgg ==
    /\ \E n \in 0..MaxTasks : store \in [1..n -> TaskValues(StatusValues)]
    /\ Canonical(store)
    /\ pc = "agg"
    /\ env = NoRecord
    /\ loaded = "ok"
    /\ config = NoRecord
    /\ conn = "open"
    /\ task_summary = <<>>
    /\ html = NoRecord
    /\ token_res = NoRecord
    /\ access_token = ""
    /\ calls = NoCalls
    /\ sent = NoRecord
    /\ sendOk = FALSE
    /\ result = NoRecord
    /\ error = ""
    /\ eligibleTasks = -1
    /\ everCalled = FALSE

\* cursor.execute(query); cursor.fetchall() over the store
Aggregate ==
    /\ pc = "agg"
    /\ \E rows \in QueryResults(store) : task_summary' = rows
    /\ eligibleTasks' = EligibleCount(store)
    /\ conn' = CloseConnection(FALSE)
    /\ pc' = "agg_done"
    /\ UNCHANGED <<env, loaded, config, store, html, token_res, access_token, calls, sent, sendOk,
                   result, error, everCalled>>

SpecAgg == InitAgg /\ [][Aggregate]_vars

-----------------------------------------------------------------------------
(* The rendering on its own: build_task_status_email_template over sequences of rows *)

\* count vectors of the rows: small ones, and two fixed ones with larger and distinct counts
ExampleCounts == {<<3, 1, 0, 0, 0, 0>>, <<12, 2, 3, 4, 5, 6>>}

CountVectors ==
    {v \in [1..6 -> 0..MaxTotal] : v[1] + v[2] + v[3] + v[4] + v[5] + v[6] <= MaxTotal}
        \cup ExampleCounts

\* a row as the aggregation returns it: a lead with an operator, or a lead without one
RowLabels == {<<"APW-1", "lead1@example.com", "Jane Doe", "jane@applywizz.com">>,
              <<"APW-2", "lead2@example.com", None, None>>}

AggregatedRow(g, v) ==
    [apw_id |-> g[1], lead_email |-> g[2], ca_name |-> g[3], ca_email |-> g[4],
     completed_75_plus |-> v[1], pending_75_plus |-> v[2], in_progress_75_plus |-> v[3],
     not_relevant_75_plus |-> v[4], job_not_found_75_plus |-> v[5],
     already_applied_75_plus |-> v[6]]

RenderRows == {AggregatedRow(g, v) : g \in RowLabels, v \in CountVectors}

RenderInputs == UNION {[1..n -> RenderRows] : n \in 0..MaxRows}

InitRender ==
    /\ task_summary \in RenderInputs
    /\ pc = "render"
    /\ env = NoRecord
    /\ loaded = "ok"
    /\ config = NoRecord
    /\ conn = "closed"
    /\ store = <<>>
    /\ html = NoRecord
    /\ token_res = NoRecord
    /\ access_token = ""
    /\ calls = NoCalls
    /\ sent = NoRecord
    /\ sendOk = FALSE
    /\ result = NoRecord
    /\ error = ""
    /\ eligibleTasks = -1
    /\ everCalled = FALSE

\* html = build_task_status_email_template(app_name=APP_NAME, tasks_data=task_summary)
Render ==
    /\ pc = "render"
    /\ html' = BuildTemplate(APP_NAME, task_summary)
    /\ pc' = "render_done"
    /\ UNCHANGED <<env, loaded, config, conn, store, task_summary, token_res, access_token, calls,
                   sent, sendOk, result, error, eligibleTasks, everCalled>>

SpecRender == InitRender /\ [][Render]_vars

-----------------------------------------------------------------------------
(* Properties *)

\* the six counts of a row, added up
SumCounts(row) ==
    row.completed_75_plus + row.pending_75_plus + row.in_progress_75_plus
        + row.not_relevant_75_plus + row.job_not_found_75_plus + row.already_applied_75_plus

\* a (lead, operator) pair by its keys; the operator may be absent
PairOf(t) == <<t.leadId, t.ops_personId>>
AllPairs == LeadIds \X (OpsIds \cup {NullRef})

\* the row shows the lead and the operator of the pair
RowIsOfPair(row, pr) ==
    /\ row.apw_id = LeadTable[pr[1]].apwId
    /\ row.lead_email = LeadTable[pr[1]].email
    /\ IF pr[2] = NullRef
       THEN row.ca_name = None /\ row.ca_email = None
       ELSE row.ca_name = OpsTable[pr[2]].name /\ row.ca_email = OpsTable[pr[2]].email

\* two strings are equal up to the case of their letters
SameIgnoringCase(a, b) ==
    /\ Len(a) = Len(b)
    /\ \A i \in 1..Len(a) :
        \/ a[i] = b[i]
        \/ \E k \in 1..Len(UpperCase) : {a[i], b[i]} = {UpperCase[k], LowerCase[k]}

Recognised(status) == \E c \in 1..Len(ColumnLiteral) : SameIgnoringCase(status, ColumnLiteral[c])

EligibleOfPair(s, pr) == {i \in 1..Len(s) : PairOf(s[i]) = pr /\ Eligible(s[i])}

\* C1: a run over a store with no eligible task issues no token request and no send
\* request, and the result it returns has email_sent = false.
C1_EmptyShortCircuit ==
    eligibleTasks = 0 =>
        /\ calls.token = 0
        /\ calls.send = 0
        /\ pc = "done" => result.email_sent = FALSE

\* C2 as stated: the six counts of every returned row add up to the number of eligible
\* tasks (in window, score >= 75) of the row's pair.
C2_SumIsEligibleTotal ==
    pc = "agg_done" =>
        \A k \in 1..Len(task_summary) : \A pr \in AllPairs :
            RowIsOfPair(task_summary[k], pr) =>
                SumCounts(task_summary[k]) = Cardinality(EligibleOfPair(store, pr))

\* C2 amended: the six counts of every returned row add up to the number of eligible
\* tasks of the row's pair whose status is one of the six recognised values, compared
\* case-insensitively.
C2_SumIsRecognisedEligibleTotal ==
    pc = "agg_done" =>
        \A k \in 1..Len(task_summary) : \A pr \in AllPairs :
            RowIsOfPair(task_summary[k], pr) =>
                SumCounts(task_summary[k]) =
                    Cardinality({i \in EligibleOfPair(store, pr) : Recognised(store[i].status)})

\* a row whose pair has two eligible tasks, one of them with an unrecognised status
C2_Witness ==
    /\ pc = "agg_done"
    /\ \E k \in 1..Len(task_summary) : \E pr \in AllPairs :
        /\ RowIsOfPair(task_summary[k], pr)
        /\ SumCounts(task_summary[k]) = 1
        /\ Cardinality(EligibleOfPair(store, pr)) = 2

\* C3: the returned rows correspond one to one to the distinct (lead, operator) pairs
\* that have an eligible task: every row is of such a pair, and every such pair has
\* exactly one row.
C3_RowsAreEligiblePairs ==
    pc = "agg_done" =>
        LET eligiblePairs == {pr \in AllPairs : EligibleOfPair(store, pr) # {}}
        IN  /\ \A k \in 1..Len(task_summary) :
                \E pr \in eligiblePairs : RowIsOfPair(task_summary[k], pr)
            /\ \A pr \in eligiblePairs :
                Cardinality({k \in 1..Len(task_summary) : RowIsOfPair(task_summary[k], pr)}) = 1

\* the fields of the response of POST /send-task-status-report
ResponseFields ==
    {"success", "message", "task_combinations_count", "tasks_data", "email_sent", "email_sent_to"}

\* C4: every result returned by a run carries the six response fields; on the sent
\* branch the count is the number of rows, tasks_data is the rows, and email_sent_to is
\* the address of the send request.
C4_ResponseShape ==
    pc = "done" =>
        /\ ResponseFields \subseteq DOMAIN result
        /\ result.email_sent =>
            /\ result.task_combinations_count = Len(task_summary)
            /\ result.tasks_data = task_summary
            /\ result.email_sent_to = sent.toRecipients[1]

ConnectionErrors == {"HTTPException: Database connection failed"}
QueryErrors == {"HTTPException: Database query failed"}
AuthErrors == {"HTTPException: Failed to get access token from Azure AD",
               "HTTPException: No access token received from Azure AD"}
SendErrors == {"HTTPException: Failed to send email via Microsoft Graph"}
TransportErrors == {"requests.RequestException"}

\* C5 as stated, its last clause: no run ends in an error after a send request was issued.
C5_NoErrorAfterSend ==
    pc = "failed" => calls.send = 0

\* C5 amended: a run ends in one of three ways. It returns the no-tasks result without
\* any token or send request; or it returns email_sent = true after exactly one send
\* request that was answered with success; or it fails with an error and returns no
\* result. A run that fails with a connection, query or auth error issued no send
\* request; a run that fails after its send request fails because that request was
\* refused or could not be delivered, and no send request of it was answered with success.
C5_NoPartialSuccess ==
    /\ pc = "done" =>
        /\ error = ""
        /\ \/ /\ result.email_sent = FALSE
              /\ calls.token = 0 /\ calls.send = 0 /\ ~sendOk
           \/ /\ result.email_sent = TRUE
              /\ calls.send = 1 /\ sendOk
    /\ pc = "failed" =>
        /\ error \in ConnectionErrors \cup QueryErrors \cup AuthErrors \cup SendErrors
                        \cup TransportErrors
        /\ result = NoRecord
        /\ ~sendOk
        /\ error \in ConnectionErrors \cup QueryErrors \cup AuthErrors => calls.send = 0
        /\ calls.send > 0 => calls.send = 1 /\ error \in SendErrors \cup TransportErrors

\* a run that failed with a send error after its send request was refused
C5_Witness ==
    /\ pc = "failed"
    /\ calls.send = 1
    /\ error \in SendErrors

\* the store without its i-th task
Without(s, i) == [j \in 1..(Len(s) - 1) |-> IF j < i THEN s[j] ELSE s[j + 1]]

\* the c-th count shown for a pair in a sequence of rows, 0 when the pair has no row
CountIn(rows, pr, c) ==
    IF \E k \in 1..Len(rows) : RowIsOfPair(rows[k], pr)
    THEN rows[CHOOSE k \in 1..Len(rows) : RowIsOfPair(rows[k], pr)][CountColumns[c]]
    ELSE 0

\* C6: compared with the result over the store without it, a task adds 1 to exactly one
\* counter of the row of its pair -- the counter of its status -- if and only if
\* start <= createdAt < end, its score is >= 75 and its status is, case-insensitively,
\* one of the six recognised values; otherwise it adds to no counter of any row.
C6_FilteringRule ==
    pc = "agg_done" =>
        \A i \in 1..Len(store) :
            LET t == store[i]
                rest == CHOOSE q \in QueryResults(Without(store, i)) : TRUE
            IN  \A pr \in AllPairs : \A c \in 1..Len(CountColumns) :
                    CountIn(task_summary, pr, c) - CountIn(rest, pr, c) =
                        IF /\ pr = PairOf(t)
                           /\ WindowStart <= t.createdAt /\ t.createdAt < WindowEnd
                           /\ t.score >= ScoreThreshold
                           /\ SameIgnoringCase(t.status, ColumnLiteral[c])
                        THEN 1 ELSE 0

\* a pair with a task created exactly at start with score 75 and status COMPLETED, which
\* is counted, and a task created exactly at end, which is not
C6_Witness ==
    /\ pc = "agg_done"
    /\ \E i, j \in 1..Len(store) :
        /\ PairOf(store[i]) = PairOf(store[j])
        /\ store[i].createdAt = WindowStart
        /\ store[i].score = ScoreThreshold
        /\ store[i].status = StatusList[3]
        /\ store[j].createdAt = WindowEnd
        /\ store[j].score = ScoreThreshold
        /\ CountIn(task_summary, PairOf(store[i]), 1) = 1

\* the number a string of decimal digits denotes
RECURSIVE DecValue(_)
DecValue(d) ==
    IF d = <<>> THEN 0
    ELSE DecValue(SubSeq(d, 1, Len(d) - 1)) * 10
            + ((CHOOSE k \in 1..Len(Digits) : Digits[k] = d[Len(d)]) - 1)

IsDecimal(d) ==
    /\ Len(d) >= 1
    /\ \A k \in 1..Len(d) : \E n \in 1..Len(Digits) : Digits[n] = d[k]
    /\ Len(d) > 1 => d[1] # "0"

\* the i-th table row shows the i-th input row: its lead, its six counts, their sum
ShowsRow(tr, i, task) ==
    /\ IsDecimal(tr.idx) /\ DecValue(tr.idx) = i
    /\ tr.apw_id = task.apw_id
    /\ tr.lead_email = task.lead_email
    /\ tr.ca_name = (IF task.ca_name = None THEN "N/A" ELSE task.ca_name)
    /\ IsDecimal(tr.completed) /\ DecValue(tr.completed) = task.completed_75_plus
    /\ IsDecimal(tr.pending) /\ DecValue(tr.pending) = task.pending_75_plus
    /\ IsDecimal(tr.in_progress) /\ DecValue(tr.in_progress) = task.in_progress_75_plus
    /\ IsDecimal(tr.not_relevant) /\ DecValue(tr.not_relevant) = task.not_relevant_75_plus
    /\ IsDecimal(tr.job_not_found) /\ DecValue(tr.job_not_found) = task.job_not_found_75_plus
    /\ IsDecimal(tr.already_applied) /\ DecValue(tr.already_applied) = task.already_applied_75_plus
    /\ IsDecimal(tr.total) /\ DecValue(tr.total) = SumCounts(task)

C7_RenderedRows ==
    pc = "render_done" =>
        /\ Len(html.task_rows) = Len(task_summary)
        /\ \A i \in 1..Len(task_summary) : ShowsRow(html.task_rows[i], i, task_summary[i])

\* C7: the document has exactly one table row per input row, in input order, showing the
\* row's six counts unchanged and, as total, their sum; rendering leaves the rows and
\* every other variable but the document as they were.
C7_RenderingFidelity ==
    /\ []C7_RenderedRows
    /\ [][Render => UNCHANGED <<task_summary, store, result, calls, sent, config>>]_vars

\* two rows rendered, one of them with counts 3,1,0,0,0,0 shown with total 4
C7_Witness ==
    /\ pc = "render_done"
    /\ Len(html.task_rows) = 2
    /\ \E i \in 1..2 :
        /\ <<task_summary[i].completed_75_plus, task_summary[i].pending_75_plus>> = <<3, 1>>
        /\ SumCounts(task_summary[i]) = 4
        /\ html.task_rows[i].completed = <<"3">>
        /\ html.task_rows[i].pending = <<"1">>
        /\ html.task_rows[i].total = <<"4">>

\* a required name is unset or set to the empty string
RequiredAbsent(e) == \E n \in RequiredNames : n \notin DOMAIN e \/ e[n] = ""

ConfigErrors == {"ValueError: Missing required Azure AD credentials",
                 "ValueError: Missing required DATABASE_URL environment variable"}

\* C8: with a required value absent the import never succeeds, it fails with a
\* ValueError, and the process never connects to the store nor issues a token or send
\* request; with all four present the import does not fail, whatever the optional values.
C8_StartupValidation ==
    /\ RequiredAbsent(env) =>
        /\ loaded \in {"loading", "config_error"}
        /\ loaded = "config_error" => error \in ConfigErrors
        /\ ~everCalled
        /\ calls = NoCalls
        /\ conn = "none"
        /\ pc = "idle"
    /\ (env # NoRecord /\ ~RequiredAbsent(env)) => loaded # "config_error"

\* the import failed on an empty DATABASE_URL with the three Azure values set
C8_Witness ==
    /\ loaded = "config_error"
    /\ "DATABASE_URL" \in DOMAIN env
    /\ env["DATABASE_URL"] = ""
    /\ \A n \in RequiredNames \ {"DATABASE_URL"} : n \in DOMAIN env /\ env[n] # ""

\* C9: the connection of a run is open only between its acquisition and its one query;
\* once the query has run, with or without error, it is closed, it is closed before any
\* token or send request, and no run ends with it open.
C9_ScopedConnection ==
    /\ calls.query <= 1
    /\ conn = "open" => pc = "query" /\ calls.query = 0
    /\ conn = "closed" => calls.query = 1
    /\ calls.query = 1 => conn = "closed"
    /\ (calls.token > 0 \/ calls.send > 0) => conn = "closed"
    /\ pc \in {"done", "failed"} => conn # "open"

\* a run whose query failed and whose connection was closed
C9_Witness ==
    /\ pc = "failed"
    /\ error \in QueryErrors
    /\ calls.query = 1
    /\ conn = "closed"

\* C10: a send request is issued only after the token exchange of the same run answered
\* with success and a non-empty token, and it carries that token; when the exchange
\* answers with a non-success status or without a token the run fails with an auth
\* error and issues no send request.
C10_TokenBeforeDispatch ==
    /\ (pc = "send" \/ calls.send > 0) =>
        /\ calls.token = 1
        /\ ~token_res.raised /\ token_res.ok
        /\ token_res.access_token \in Tokens
        /\ access_token = token_res.access_token
    /\ calls.send > 0 => sent.authorization = <<"Bearer", token_res.access_token>>
    /\ (calls.token > 0 /\ ~token_res.raised
            /\ (~token_res.ok \/ token_res.access_token \in {None, ""})) =>
        /\ pc = "failed"
        /\ error \in AuthErrors
        /\ calls.send = 0

\* a run whose exchange answered with tok-B and whose mail was sent carrying tok-B
C10_Witness ==
    /\ pc = "done"
    /\ sendOk
    /\ token_res.access_token = "tok-B"
    /\ sent.authorization = <<"Bearer", "tok-B">>

\* the external calls of a run that ended in the given error: the failing call was the last
CallsAtFailure ==
    /\ error \in ConnectionErrors =>
        calls = [connect |-> 1, query |-> 0, token |-> 0, send |-> 0]
    /\ error \in QueryErrors =>
        calls = [connect |-> 1, query |-> 1, token |-> 0, send |-> 0]
    /\ error \in AuthErrors =>
        calls = [connect |-> 1, query |-> 1, token |-> 1, send |-> 0]
    /\ error \in SendErrors =>
        calls = [connect |-> 1, query |-> 1, token |-> 1, send |-> 1]
    /\ error \in TransportErrors =>
        /\ calls.connect = 1 /\ calls.query = 1 /\ calls.token = 1
        /\ calls.send = (IF sent = NoRecord THEN 0 ELSE 1)

C11_AtMostOnce ==
    /\ calls.connect <= 1
    /\ calls.query <= 1
    /\ calls.token <= 1
    /\ calls.send <= 1
    /\ pc = "failed" => CallsAtFailure
    /\ (pc = "done" /\ result.email_sent) => calls.token = 1 /\ calls.send = 1

\* C11: a run issues at most one aggregation query, one token request and one send
\* request, whatever the store and the services answer; a run that failed stopped at
\* the failing call and issues no further external call (only a new invocation, which
\* starts from zero calls, follows it); a run that returns email_sent = true issued
\* exactly one token request and exactly one send request.
C11_SingleShot ==
    /\ []C11_AtMostOnce
    /\ [][pc = "failed" => (calls' = calls \/ (pc' = "connect" /\ calls' = NoCalls))]_vars

\* a run that returned email_sent = true after one call of each kind
C11_Witness ==
    /\ pc = "done"
    /\ result.email_sent
    /\ sendOk
    /\ calls = [connect |-> 1, query |-> 1, token |-> 1, send |-> 1]

====
